---- MODULE Spec2Model ----
(***************************************************************************)
(* Model of the beat-market server (src/server.js, the current server of   *)
(* lines 1-615): the "beats" and "users" collections of the document       *)
(* store, and the request handlers /upload, /purchase, /favorite, /follow  *)
(* and DELETE /beat/:id.  Every await of a handler is a separate step, so  *)
(* the store operations of concurrent requests interleave as the Node      *)
(* event loop and the store allow; the two members of a Promise.all are    *)
(* two steps taken in either order.                                        *)
(*                                                                         *)
(* The blob store may fail (UploadMedia, DeleteMedia draw the outcome);    *)
(* the document store is taken to answer every call.  updateMany is one    *)
(* step.  A request keeps its record after it is answered, so that a       *)
(* property can compare the store with what the request found on arrival.  *)
(***************************************************************************)
EXTENDS Integers, Sequences, FiniteSets, TLC

\* ---------------------------------------------------------------- bounds
MaxRequests == 3
MaxBeats == 1
MaxUsers == 2

\* ------------------------------------------------------- input encodings
\* A request field that is absent (undefined, "" : falsy in JavaScript).
Missing == 0
\* A beat id string that ObjectId.isValid rejects.
Malformed == 0 - 1
\* The double NaN, which parseFloat returns for a non-numeric string.
NaN == 0 - 9999

Requests == 1..MaxRequests
UserIds == 1..MaxUsers
ObjectIds == 1..MaxBeats
ActionInputs == {"add", "remove"}
PriceInputs == {"abc", "5"}
BpmInputs == {"140", "0"}

\* The request bodies the model draws: every well-formed one, and for each
\* validation of a handler one body that fails it.
PurchaseInputs ==
  (UserIds \X ObjectIds) \cup {<<Missing, 1>>, <<1, Missing>>, <<1, Malformed>>}
FavoriteInputs ==
  (UserIds \X ObjectIds \X ActionInputs)
     \cup {<<Missing, 1, "add">>, <<1, Malformed, "add">>, <<1, 1, "toggle">>}
FollowInputs == (UserIds \X UserIds) \cup {<<Missing, 1>>, <<1, Missing>>}
DeleteInputs == (ObjectIds \X UserIds) \cup {<<Malformed, 1>>, <<1, Missing>>}
\* <<files present, title/genre present, price, ownerTelegramId, bpm>>
UploadInputs ==
  ({TRUE} \X {TRUE} \X PriceInputs \X UserIds \X {"140"})
     \cup {<<TRUE, TRUE, "5", 1, "0">>, <<TRUE, TRUE, "-5", 1, "140">>}
     \cup {<<FALSE, TRUE, "5", 1, "140">>, <<TRUE, FALSE, "5", 1, "140">>,
           <<TRUE, TRUE, "", 1, "140">>, <<TRUE, TRUE, "5", Missing, "140">>,
           <<TRUE, TRUE, "5", 1, "">>}

VARIABLES beats, users, nextId, req

vars == <<beats, users, nextId, req>>

\* ------------------------------------------------------ pure operations
Range(s) == {s[i] : i \in 1..Len(s)}

RECURSIVE Without(_, _)
Without(s, x) ==
  IF s = <<>> THEN <<>>
  ELSE IF Head(s) = x THEN Without(Tail(s), x)
       ELSE <<Head(s)>> \o Without(Tail(s), x)

\* $addToSet that appends even when the element is present ($push).
AddToSetAlwaysAppends(s, x) == Append(s, x)

\* MongoDB $addToSet on an array field.
AddToSet(s, x) == IF x \in Range(s) THEN s ELSE Append(s, x)

\* $pull that removes nothing.
PullKeepsAll(s, x) == s

\* MongoDB $pull of a value from an array field.
Pull(s, x) == Without(s, x)

NoDuplicates(s) == \A i, j \in 1..Len(s) : s[i] = s[j] => i = j

\* ObjectId.isValid on the id strings the model draws.
ObjectIdIsValid(id) == id \in ObjectIds

\* validateObjectId: TRUE when it throws.
ValidateObjectIdThrows(id) == id = Missing \/ ~ObjectIdIsValid(id)

\* parseFloat on the price strings the model draws.
ParseFloat(s) ==
  CASE s = "5" -> 5 [] s = "-5" -> 0 - 5 [] s = "abc" -> NaN [] OTHER -> NaN

\* parseInt on the bpm strings the model draws.
ParseInt(s) == CASE s = "140" -> 140 [] s = "0" -> 0 [] OTHER -> NaN

\* JavaScript / BSON double arithmetic on the values the model uses.
JsAdd(a, b) == IF a = NaN \/ b = NaN THEN NaN ELSE a + b
JsMul(a, b) == IF a = NaN \/ b = NaN THEN NaN ELSE a * b
JsEq(a, b) == a # NaN /\ b # NaN /\ a = b

\* ------------------------------------------------------------ documents
\* A users document.  purchases may be absent (hasPurchases = FALSE);
\* favorites and followers absent read as the empty array in every handler.
NewUser == [hasPurchases |-> FALSE, purchases |-> <<>>,
            favorites |-> <<>>, followers |-> <<>>]

\* The document the earlier /purchase handler inserts for a new user.
LegacyUser == [hasPurchases |-> TRUE, purchases |-> <<>>,
               favorites |-> <<>>, followers |-> <<>>]

\* findOne({telegramId}) as the handler sees it: null or the document.
NullUser == [exists |-> FALSE, hasPurchases |-> FALSE, purchases |-> <<>>]
FindUser(u) ==
  IF u \in DOMAIN users
  THEN [exists |-> TRUE, hasPurchases |-> users[u].hasPurchases,
        purchases |-> users[u].purchases]
  ELSE NullUser

\* updateOne({telegramId: u}, ..., {upsert: true}): the document to update.
Upserted(u) == IF u \in DOMAIN users THEN users[u] ELSE NewUser

\* What a /purchase request found in the store when it arrived (history).
NoPre == [beat |-> FALSE, sales |-> 0, earned |-> 0,
          user |-> FALSE, list |-> FALSE, purchases |-> <<>>]
PreOf(u, b) ==
  [beat |-> b \in DOMAIN beats,
   sales |-> IF b \in DOMAIN beats THEN beats[b].sales ELSE 0,
   earned |-> IF b \in DOMAIN beats THEN beats[b].earned ELSE 0,
   user |-> u \in DOMAIN users,
   list |-> IF u \in DOMAIN users THEN users[u].hasPurchases ELSE FALSE,
   purchases |-> IF u \in DOMAIN users THEN users[u].purchases ELSE <<>>]

IdleReq == [pc |-> "idle", kind |-> "none", userId |-> Missing,
            beatId |-> Missing, action |-> "", producerId |-> Missing,
            price |-> "", bpm |-> "", pend |-> {}, found |-> FALSE, snapPrice |-> 0,
            snapUser |-> NullUser, status |-> 0, error |-> "",
            quiet |-> FALSE, joined |-> {}, pulled |-> {}, favAdds |-> {},
            matched |-> {}, pre |-> NoPre]

InFlight(r) == req[r].pc \notin {"idle", "done"}

\* ------------------------------------------------------------ the state
\* The store when the server starts: no beats; user 1 has the document the
\* earlier /purchase handler wrote for it (lines 775-779), user 2 has none.
Init ==
  /\ beats = <<>>
  /\ users = [u \in {1} |-> LegacyUser]
  /\ nextId = 0
  /\ req = [r \in Requests |-> IdleReq]

\* A request arrives: requests are numbered in order of arrival.
CanStart(r) ==
  /\ req[r].pc = "idle"
  /\ IF r = 1 THEN TRUE ELSE req[r - 1].pc # "idle"

\* The record of a request at arrival, with the store as it then is.
Arrive(r, kind) == [IdleReq EXCEPT !.kind = kind]

\* History kept for /purchase requests: whether the server was idle when the
\* request arrived, and which requests arrived while it was in flight.
Disturb(r, rec) ==
  [q \in Requests |->
     IF q = r THEN rec
     ELSE IF InFlight(q) /\ req[q].kind = "purchase"
       THEN [req[q] EXCEPT !.joined = @ \cup {r}]
     ELSE req[q]]

\* The handler answers synchronously, before its first await.
Reject(rec, code, msg) ==
  [rec EXCEPT !.pc = "done", !.status = code, !.error = msg]

\* The handler's last store operation has resolved; the answer is not sent yet.
Answer(rec, code, msg) ==
  [rec EXCEPT !.pc = "respond", !.status = code, !.error = msg, !.pend = {}]

\* res.json / res.status().json after the last await.
Respond(r) ==
  /\ req[r].pc = "respond"
  /\ req' = [req EXCEPT ![r].pc = "done"]
  /\ UNCHANGED <<beats, users, nextId>>

\* ------------------------------------------------------------ /purchase
PurchaseStart(r, u, b) ==
  /\ CanStart(r)
  /\ LET rec == [Arrive(r, "purchase") EXCEPT
                  !.userId = u, !.beatId = b, !.pre = PreOf(u, b),
                  !.quiet = \A q \in Requests : ~InFlight(q)]
     IN req' = Disturb(r,
          IF u = Missing \/ b = Missing
            THEN Reject(rec, 400, "Missing required fields")
          ELSE IF ValidateObjectIdThrows(b)
            THEN Reject(rec, 500, "Failed to process purchase")
          ELSE [rec EXCEPT !.pc = "read", !.pend = {"beat", "user"}])
  /\ UNCHANGED <<beats, users, nextId>>

\* The ownership test that never finds the beat.
OwnsNever(purchases, b) == FALSE

\* user.purchases.some(p => p.equals(new ObjectId(beatId)))
Owns(purchases, b) == b \in Range(purchases)

\* Lines 529-531, run when both reads have resolved.
PurchaseDecide(rec) ==
  IF ~rec.found THEN Answer(rec, 404, "Beat not found")
  ELSE IF ~rec.snapUser.exists \/ ~rec.snapUser.hasPurchases
    THEN Answer(rec, 500, "Failed to process purchase")
  ELSE IF Owns(rec.snapUser.purchases, rec.beatId)
    THEN Answer(rec, 200, "")
  ELSE [rec EXCEPT !.pc = "write", !.pend = {"users", "beats"}]

PurchaseAfterRead(rec) ==
  IF rec.pend = {} THEN PurchaseDecide(rec) ELSE rec

PurchaseFindBeat(r) ==
  /\ req[r].kind = "purchase" /\ req[r].pc = "read" /\ "beat" \in req[r].pend
  /\ LET b == req[r].beatId
         rec == [req[r] EXCEPT !.pend = @ \ {"beat"},
                               !.found = b \in DOMAIN beats,
                               !.snapPrice = IF b \in DOMAIN beats
                                             THEN beats[b].price ELSE 0]
     IN req' = [req EXCEPT ![r] = PurchaseAfterRead(rec)]
  /\ UNCHANGED <<beats, users, nextId>>

PurchaseFindUser(r) ==
  /\ req[r].kind = "purchase" /\ req[r].pc = "read" /\ "user" \in req[r].pend
  /\ LET rec == [req[r] EXCEPT !.pend = @ \ {"user"},
                               !.snapUser = FindUser(req[r].userId)]
     IN req' = [req EXCEPT ![r] = PurchaseAfterRead(rec)]
  /\ UNCHANGED <<beats, users, nextId>>

PurchaseAfterWrite(rec) ==
  IF rec.pend = {} THEN Answer(rec, 200, "") ELSE rec

PurchaseUpdateUser(r) ==
  /\ req[r].kind = "purchase" /\ req[r].pc = "write" /\ "users" \in req[r].pend
  /\ LET u == req[r].userId
     IN users' = IF u \in DOMAIN users
                 THEN [users EXCEPT ![u].hasPurchases = TRUE,
                                    ![u].purchases = AddToSet(@, req[r].beatId)]
                 ELSE users
  /\ req' = [req EXCEPT ![r] = PurchaseAfterWrite(
               [req[r] EXCEPT !.pend = @ \ {"users"},
                              !.matched = IF req[r].userId \in DOMAIN users
                                          THEN @ \cup {"users"} ELSE @])]
  /\ UNCHANGED <<beats, nextId>>

PurchaseUpdateBeat(r) ==
  /\ req[r].kind = "purchase" /\ req[r].pc = "write" /\ "beats" \in req[r].pend
  /\ LET b == req[r].beatId
     IN beats' = IF b \in DOMAIN beats
                 THEN [beats EXCEPT ![b].sales = @ + 1,
                                    ![b].earned = JsAdd(@, req[r].snapPrice)]
                 ELSE beats
  /\ req' = [req EXCEPT ![r] = PurchaseAfterWrite(
               [req[r] EXCEPT !.pend = @ \ {"beats"},
                              !.matched = IF req[r].beatId \in DOMAIN beats
                                          THEN @ \cup {"beats"} ELSE @])]
  /\ UNCHANGED <<users, nextId>>

\* -------------------------------------------------------------- /upload
\* Uploads admitted but not yet inserted; caps the ids the store hands out.
UploadsPending == Cardinality({q \in Requests :
                     req[q].kind = "upload" /\ req[q].pc \in {"media", "insert"}})

UploadStart(r, files, fields, price, owner, bpm) ==
  /\ CanStart(r)
  /\ nextId + UploadsPending < MaxBeats
  /\ LET rec == [Arrive(r, "upload") EXCEPT
                  !.userId = owner, !.price = price, !.bpm = bpm]
     IN req' = Disturb(r,
          IF ~files
            THEN Reject(rec, 400, "Both cover and audio files are required")
          ELSE IF ~fields \/ bpm = "" \/ price = "" \/ owner = Missing
            THEN Reject(rec, 400, "Missing required fields")
          ELSE [rec EXCEPT !.pc = "media"])
  /\ UNCHANGED <<beats, users, nextId>>

\* Promise.all of the two uploadToCloudinary calls: both resolve, or one rejects.
UploadMedia(r, ok) ==
  /\ req[r].kind = "upload" /\ req[r].pc = "media"
  /\ req' = [req EXCEPT ![r] = IF ok THEN [@ EXCEPT !.pc = "insert"]
                               ELSE Answer(@, 500, "Failed to upload beat")]
  /\ UNCHANGED <<beats, users, nextId>>

NewBeat(price, owner, bpm) ==
  [bpm |-> ParseInt(bpm), price |-> ParseFloat(price),
   sales |-> 0, earned |-> 0, owner |-> owner]

UploadInsert(r) ==
  /\ req[r].kind = "upload" /\ req[r].pc = "insert"
  /\ nextId' = nextId + 1
  /\ beats' = (nextId + 1 :> NewBeat(req[r].price, req[r].userId, req[r].bpm)) @@ beats
  /\ req' = [req EXCEPT ![r].pc = "upsert", ![r].beatId = nextId + 1]
  /\ UNCHANGED users

UploadUpsertUser(r) ==
  /\ req[r].kind = "upload" /\ req[r].pc = "upsert"
  /\ LET u == req[r].userId
     IN users' = (u :> Upserted(u)) @@ users
  /\ req' = [req EXCEPT ![r] = Answer(@, 200, "")]
  /\ UNCHANGED <<beats, nextId>>

\* ------------------------------------------------------------ /favorite
FavoriteStart(r, u, b, a) ==
  /\ CanStart(r)
  /\ LET rec == [Arrive(r, "favorite") EXCEPT !.userId = u, !.beatId = b, !.action = a]
     IN req' = Disturb(r,
          IF u = Missing \/ b = Missing \/ a \notin {"add", "remove"}
            THEN Reject(rec, 400, "Invalid request")
          ELSE IF ValidateObjectIdThrows(b)
            THEN Reject(rec, 500, "Failed to update favorites")
          ELSE [rec EXCEPT !.pc = "update"])
  /\ UNCHANGED <<beats, users, nextId>>

\* An "add" that pushes the id whether or not it is present.
FavoriteApplyPush(favorites, b, a) ==
  IF a = "add" THEN Append(favorites, b) ELSE Pull(favorites, b)

\* The update document of lines 400-402 applied to a favorites array.
FavoriteApply(favorites, b, a) ==
  IF a = "add" THEN AddToSet(favorites, b) ELSE Pull(favorites, b)

FavoriteUpdate(r) ==
  /\ req[r].kind = "favorite" /\ req[r].pc = "update"
  /\ LET u == req[r].userId
         b == req[r].beatId
         doc == Upserted(u)
     IN /\ users' = (u :> [doc EXCEPT !.favorites =
                             FavoriteApply(@, b, req[r].action)]) @@ users
        /\ req' = [q \in Requests |->
             IF q = r THEN Answer(req[r], 200, "")
             ELSE IF /\ req[r].action = "add"
                     /\ req[q].kind = "delete" /\ req[q].pc = "respond"
                     /\ req[q].status = 200 /\ req[q].beatId = b
               THEN [req[q] EXCEPT !.favAdds = @ \cup {u}]
             ELSE req[q]]
  /\ UNCHANGED <<beats, nextId>>

\* -------------------------------------------------------------- /follow
\* A self-follow test that never fires.
SelfFollowNever(u, p) == FALSE

\* userId === producerId (line 249).
SelfFollow(u, p) == u = p

FollowStart(r, u, p) ==
  /\ CanStart(r)
  /\ LET rec == [Arrive(r, "follow") EXCEPT !.userId = u, !.producerId = p]
     IN req' = Disturb(r,
          IF u = Missing \/ p = Missing
            THEN Reject(rec, 400, "Missing required fields")
          ELSE IF SelfFollow(u, p)
            THEN Reject(rec, 400, "Cannot follow yourself")
          ELSE [rec EXCEPT !.pc = "read", !.pend = {"user", "producer"}])
  /\ UNCHANGED <<beats, users, nextId>>

FollowDecide(rec) ==
  IF rec.pend # {} THEN rec
  ELSE IF ~rec.snapUser.exists \/ ~rec.found
    THEN Answer(rec, 404, "User or producer not found")
  ELSE [rec EXCEPT !.pc = "update"]

FollowFindUser(r) ==
  /\ req[r].kind = "follow" /\ req[r].pc = "read" /\ "user" \in req[r].pend
  /\ req' = [req EXCEPT ![r] = FollowDecide(
               [@ EXCEPT !.pend = @ \ {"user"}, !.snapUser = FindUser(req[r].userId)])]
  /\ UNCHANGED <<beats, users, nextId>>

FollowFindProducer(r) ==
  /\ req[r].kind = "follow" /\ req[r].pc = "read" /\ "producer" \in req[r].pend
  /\ req' = [req EXCEPT ![r] = FollowDecide(
               [@ EXCEPT !.pend = @ \ {"producer"},
                         !.found = req[r].producerId \in DOMAIN users])]
  /\ UNCHANGED <<beats, users, nextId>>

FollowUpdate(r) ==
  /\ req[r].kind = "follow" /\ req[r].pc = "update"
  /\ LET p == req[r].producerId
     IN users' = IF p \in DOMAIN users
                 THEN [users EXCEPT ![p].followers = AddToSet(@, req[r].userId)]
                 ELSE users
  /\ req' = [req EXCEPT ![r] = Answer(@, 200, "")]
  /\ UNCHANGED <<beats, nextId>>

\* ----------------------------------------------------- DELETE /beat/:id
DeleteStart(r, b, u) ==
  /\ CanStart(r)
  /\ LET rec == [Arrive(r, "delete") EXCEPT !.userId = u, !.beatId = b]
     IN req' = Disturb(r,
          IF ValidateObjectIdThrows(b)
            THEN Reject(rec, 500, "Failed to delete beat")
          ELSE IF u = Missing
            THEN Reject(rec, 400, "User ID is required")
          ELSE [rec EXCEPT !.pc = "find"])
  /\ UNCHANGED <<beats, users, nextId>>

\* A lookup by id alone, without the owner.
FindAnyBeat(b, u) == b \in DOMAIN beats

\* findOne({_id, ownerTelegramId: userId}) finds a document.
FindOwnedBeat(b, u) == b \in DOMAIN beats /\ beats[b].owner = u

DeleteFind(r) ==
  /\ req[r].kind = "delete" /\ req[r].pc = "find"
  /\ req' = [req EXCEPT ![r] =
       IF FindOwnedBeat(req[r].beatId, req[r].userId)
       THEN [@ EXCEPT !.pc = "media", !.found = TRUE]
       ELSE Answer(@, 403, "Beat not found or you are not the owner")]
  /\ UNCHANGED <<beats, users, nextId>>

\* Promise.all of the two cloudinary.uploader.destroy calls.
DeleteMedia(r, ok) ==
  /\ req[r].kind = "delete" /\ req[r].pc = "media"
  /\ req' = [req EXCEPT ![r] = IF ok THEN [@ EXCEPT !.pc = "deleteOne"]
                               ELSE Answer(@, 500, "Failed to delete beat")]
  /\ UNCHANGED <<beats, users, nextId>>

DeleteOne(r) ==
  /\ req[r].kind = "delete" /\ req[r].pc = "deleteOne"
  /\ beats' = [b \in DOMAIN beats \ {req[r].beatId} |-> beats[b]]
  /\ req' = [req EXCEPT ![r].pc = "pull"]
  /\ UNCHANGED <<users, nextId>>

\* updateMany({favorites: id}, {$pull: {favorites: id}})
DeletePullFavorites(r) ==
  /\ req[r].kind = "delete" /\ req[r].pc = "pull"
  /\ users' = [u \in DOMAIN users |->
                 [users[u] EXCEPT !.favorites = Pull(@, req[r].beatId)]]
  /\ req' = [req EXCEPT ![r] = Answer(
               [@ EXCEPT !.pulled = {u \in DOMAIN users :
                                      req[r].beatId \in Range(users[u].favorites)}],
               200, "")]
  /\ UNCHANGED <<beats, nextId>>

\* ---------------------------------------------------------------- Next
Next ==
  \/ \E r \in Requests, i \in PurchaseInputs : PurchaseStart(r, i[1], i[2])
  \/ \E r \in Requests : PurchaseFindBeat(r)
  \/ \E r \in Requests : PurchaseFindUser(r)
  \/ \E r \in Requests : PurchaseUpdateUser(r)
  \/ \E r \in Requests : PurchaseUpdateBeat(r)
  \/ \E r \in Requests, i \in UploadInputs : UploadStart(r, i[1], i[2], i[3], i[4], i[5])
  \/ \E r \in Requests, ok \in BOOLEAN : UploadMedia(r, ok)
  \/ \E r \in Requests : UploadInsert(r)
  \/ \E r \in Requests : UploadUpsertUser(r)
  \/ \E r \in Requests, i \in FavoriteInputs : FavoriteStart(r, i[1], i[2], i[3])
  \/ \E r \in Requests : FavoriteUpdate(r)
  \/ \E r \in Requests, i \in FollowInputs : FollowStart(r, i[1], i[2])
  \/ \E r \in Requests : FollowFindUser(r)
  \/ \E r \in Requests : FollowFindProducer(r)
  \/ \E r \in Requests : FollowUpdate(r)
  \/ \E r \in Requests, i \in DeleteInputs : DeleteStart(r, i[1], i[2])
  \/ \E r \in Requests : DeleteFind(r)
  \/ \E r \in Requests, ok \in BOOLEAN : DeleteMedia(r, ok)
  \/ \E r \in Requests : DeleteOne(r)
  \/ \E r \in Requests : DeletePullFavorites(r)
  \/ \E r \in Requests : Respond(r)

Spec == Init /\ [][Next]_vars

TypeOK ==
  /\ DOMAIN beats \subseteq ObjectIds
  /\ DOMAIN users \subseteq UserIds
  /\ nextId \in 0..MaxBeats
  /\ \A r \in Requests : req[r].status \in {0, 200, 400, 403, 404, 500}
\* ------------------------------------------------------------- history
Done(r) == req[r].pc = "done"

\* No request has arrived after request r.
LastArrived(r) == IF r = MaxRequests THEN TRUE ELSE req[r + 1].pc = "idle"

\* A finished /purchase with a well-formed body.
PurchaseDone(r) ==
  /\ Done(r) /\ req[r].kind = "purchase"
  /\ req[r].userId \in UserIds /\ req[r].beatId \in ObjectIds

\* Request r ran with no other request in flight, and is the latest one.
RanAlone(r) == req[r].quiet /\ req[r].joined = {} /\ LastArrived(r)

\* Requests r and r + 1 are two /purchase requests of the same user and beat
\* whose executions overlapped, with nothing else in flight and nothing since.
ConcurrentDuplicates(r) ==
  /\ r + 1 \in Requests
  /\ PurchaseDone(r) /\ PurchaseDone(r + 1)
  /\ req[r + 1].userId = req[r].userId /\ req[r + 1].beatId = req[r].beatId
  /\ req[r].quiet /\ req[r].joined = {r + 1} /\ req[r + 1].joined = {}
  /\ LastArrived(r + 1)

\* --------------------------------------------------------------- claims
\* C1: two concurrent Purchase requests of the same (user, beat), the user
\* (whose record carries a purchases list) not owning the beat before, raise
\* the beat's sales by exactly 1 and its earned by exactly price in total.
C1_ConcurrentDuplicatesCountOnce ==
  \A r \in Requests :
    (/\ ConcurrentDuplicates(r)
     /\ req[r].pre.beat /\ req[r].pre.list
     /\ ~Owns(req[r].pre.purchases, req[r].beatId))
    => LET b == req[r].beatId
       IN /\ b \in DOMAIN beats
          /\ beats[b].sales = req[r].pre.sales + 1
          /\ beats[b].earned = JsAdd(req[r].pre.earned, beats[b].price)

\* C2: a Purchase of an existing beat by a user id that has not purchased
\* it, with or without a User record, succeeds, leaves the record holding the
\* beat in its purchases, and raises the beat's sales by exactly 1.
C2_PurchaseCreatesUserAndCounts ==
  \A r \in Requests :
    (/\ PurchaseDone(r) /\ RanAlone(r)
     /\ req[r].pre.beat
     /\ ~Owns(req[r].pre.purchases, req[r].beatId))
    => LET u == req[r].userId
           b == req[r].beatId
       IN /\ req[r].status = 200
          /\ u \in DOMAIN users
          /\ b \in Range(users[u].purchases)
          /\ b \in DOMAIN beats
          /\ beats[b].sales = req[r].pre.sales + 1

\* C3: every stored beat satisfies earned == price * sales.
C3_EarnedIsPriceTimesSales ==
  \A b \in DOMAIN beats :
    JsEq(beats[b].earned, JsMul(beats[b].price, beats[b].sales))

\* C4: a Purchase run on its own, of an existing beat that is already in the
\* user's purchases, returns success and leaves the user's purchases and the
\* beat's sales and earned as they were.
C4_RepeatPurchaseIsNoOp ==
  \A r \in Requests :
    (/\ PurchaseDone(r) /\ RanAlone(r)
     /\ req[r].pre.beat
     /\ req[r].beatId \in Range(req[r].pre.purchases))
    => LET u == req[r].userId
           b == req[r].beatId
       IN /\ req[r].status = 200
          /\ users[u].purchases = req[r].pre.purchases
          /\ b \in DOMAIN beats
          /\ beats[b].sales = req[r].pre.sales
          /\ beats[b].earned = req[r].pre.earned

C4_Witness ==
  \E r \in Requests :
    /\ PurchaseDone(r) /\ RanAlone(r)
    /\ req[r].pre.beat
    /\ req[r].beatId \in Range(req[r].pre.purchases)
    /\ req[r].pre.sales > 0
\* A step in which request r sends its answer.
Responds(r) == req[r].pc = "respond" /\ req'[r].pc = "done"

\* Some user's favorites holds beat id b.
Favorited(b) == \E u \in DOMAIN users : b \in Range(users[u].favorites)

C6_DeleteByNonOwnerChangesNothing ==
  [][\A r \in Requests :
       (/\ req[r].kind = "delete" /\ req[r].pc = "find" /\ req'[r].pc # "find"
        /\ \/ req[r].beatId \notin DOMAIN beats
           \/ beats[req[r].beatId].owner # req[r].userId)
       => /\ req'[r].pc = "respond"
          /\ req'[r].status = 403
          /\ req'[r].error = "Beat not found or you are not the owner"
          /\ UNCHANGED <<beats, users, nextId>>]_vars

C6_Witness ==
  \E r \in Requests :
    /\ Done(r) /\ req[r].kind = "delete" /\ req[r].status = 403
    /\ req[r].beatId \in DOMAIN beats
    /\ beats[req[r].beatId].owner # req[r].userId

\* C7: in DeleteBeat by the owner a failure to release the media does not
\* block the removal: the Beat record is deleted and its id pulled from
\* every user's favorites.
C7_MediaFailureDoesNotBlockRemoval ==
  \A r \in Requests :
    (/\ Done(r) /\ req[r].kind = "delete"
     /\ req[r].found /\ req[r].status = 500)
    => /\ req[r].beatId \notin DOMAIN beats
       /\ ~Favorited(req[r].beatId)

\* C8: a Purchase, Favorite or DeleteBeat request with a malformed beat id
\* is answered 400 (InvalidInput), not 500.
C8_MalformedIdIsInvalidInput ==
  \A r \in Requests :
    (/\ Done(r) /\ req[r].kind \in {"purchase", "favorite", "delete"}
     /\ req[r].beatId = Malformed)
    => req[r].status = 400

\* C9: no user's purchases, favorites or followers holds an id twice.
C9_NoDuplicateIds ==
  \A u \in DOMAIN users :
    /\ NoDuplicates(users[u].purchases)
    /\ NoDuplicates(users[u].favorites)
    /\ NoDuplicates(users[u].followers)

\* Two overlapping purchases of one (user, beat) both applied their $addToSet.
C9_Witness ==
  \E r, q \in Requests :
    /\ r # q /\ PurchaseDone(r) /\ PurchaseDone(q)
    /\ req[r].userId = req[q].userId /\ req[r].beatId = req[q].beatId
    /\ req[r].status = 200 /\ req[q].status = 200
    /\ ~Owns(req[r].snapUser.purchases, req[r].beatId)
    /\ ~Owns(req[q].snapUser.purchases, req[q].beatId)

\* The favorites array of user u, empty when there is no document.
FavoritesOf(us, u) == IF u \in DOMAIN us THEN us[u].favorites ELSE <<>>

\* How often x occurs in s.
Count(s, x) == Cardinality({i \in 1..Len(s) : s[i] = x})

\* C10: a Favorite(add) of an id already present leaves favorites as it was,
\* the id present once; a Favorite(remove) of an absent id leaves favorites
\* unchanged; after a Favorite(remove) the id is absent; and no Favorite
\* changes another user's document or any beat.
C10_FavoriteSetSemantics ==
  [][\A r \in Requests :
       (req[r].kind = "favorite" /\ req[r].pc = "update" /\ req'[r].pc # "update")
       => LET u == req[r].userId
              b == req[r].beatId
              old == FavoritesOf(users, u)
              new == FavoritesOf(users', u)
          IN /\ req'[r].status = 200
             /\ (req[r].action = "add" /\ b \in Range(old)) => new = old
             /\ req[r].action = "add" => Count(new, b) = 1
             /\ (req[r].action = "remove" /\ b \notin Range(old)) => new = old
             /\ req[r].action = "remove" => b \notin Range(new)
             /\ \A v \in DOMAIN users : v # u => users'[v] = users[v]
             /\ DOMAIN users' = DOMAIN users \cup {u}
             /\ beats' = beats]_vars

\* An add of an id already present, then a remove of it, have been applied.
C10_Witness ==
  \E r, q, p \in Requests :
    /\ r < q /\ q < p
    /\ \A x \in {r, q, p} :
         /\ Done(x) /\ req[x].kind = "favorite" /\ req[x].status = 200
         /\ req[x].userId = req[r].userId /\ req[x].beatId = req[r].beatId
    /\ req[r].action = "add" /\ req[q].action = "add" /\ req[p].action = "remove"
    /\ req[r].userId \in DOMAIN users
    /\ users[req[r].userId].favorites = <<>>
\* The followers array of every user document.
Followers(us) == [u \in DOMAIN us |-> us[u].followers]

\* C11: a Follow whose userId equals its producerId is answered 400 at once,
\* with or without a User record for that id, and leaves every user's
\* followers as they were; once answered, its answer never changes.
C11_SelfFollowIsInvalidInput ==
  [][\A r \in Requests :
       /\ (/\ req[r].pc = "idle" /\ req'[r].kind = "follow"
           /\ req'[r].userId = req'[r].producerId)
          => /\ req'[r].pc = "done"
             /\ req'[r].status = 400
             /\ Followers(users') = Followers(users)
       /\ (/\ req[r].kind = "follow" /\ req[r].userId = req[r].producerId
           /\ req[r].pc # "idle")
          => req'[r] = req[r]]_vars

\* Self-follows have been answered for an id with a record and for one without.
C11_Witness ==
  \E r, q \in Requests :
    /\ \A x \in {r, q} :
         /\ Done(x) /\ req[x].kind = "follow" /\ req[x].status = 400
         /\ req[x].userId \in UserIds /\ req[x].userId = req[x].producerId
    /\ req[r].userId \in DOMAIN users
    /\ req[q].userId \notin DOMAIN users
\* C12: every stored beat has a bpm that is a positive integer, a price that
\* is non-negative and an earned total that is non-negative.
C12_StoredBeatsAreWellFormed ==
  \A b \in DOMAIN beats :
    /\ beats[b].bpm # NaN /\ beats[b].bpm > 0
    /\ beats[b].price # NaN /\ beats[b].price >= 0
    /\ beats[b].earned # NaN /\ beats[b].earned >= 0
\* C13: a Purchase applies its two store updates together or not at all: a
\* finished request that issued them has either added the beat to the user's
\* purchases and incremented the beat's counters, or done neither, also when
\* the beat was deleted meanwhile.
C13_PurchaseUpdatesAreAllOrNothing ==
  \A r \in Requests :
    (PurchaseDone(r) /\ ~Owns(req[r].snapUser.purchases, req[r].beatId))
    => req[r].matched \in {{}, {"users", "beats"}}
====
